---- MODULE Spec2Model ----
(***************************************************************************)
(* The Updatable registration/broadcast engine (src/src/Updatable.h):      *)
(* the static registry registeredInstances, the automatic-dispatch cursor  *)
(* lastUpdate, the firstCall latch, the per-receiver debug flag, and the    *)
(* TestCounter receivers of the test suite.  The loops of                  *)
(* updateAllInstances and setDebugMode advance one iteration per step.      *)
(***************************************************************************)
EXTENDS Integers, Sequences, FiniteSets

\* ------------------------------------------------------------- bounds
\* Number of distinct receiver addresses the heap can hand out.
NumReceivers == 2
\* unsigned long arithmetic is modulo 2^w; the model scales 2^w down to this.
ULongModulus == 4
\* Largest deltaTime a caller passes to updateAllInstances(deltaTime).
MaxElapsed == 2
\* Number of updateAllInstances calls (either overload) in one run.
MaxDispatches == 3

Ids == 1..NumReceivers
\* the heap's addresses and one address in static storage
Addrs == 1..(NumReceivers + 1)
ULong == 0..(ULongModulus - 1)
\* Vector<T>::OB, the member operator[] yields for an index outside [0, Size()).
OB == 0

VARIABLES
    registeredInstances, \* static Vector<Updatable *>
    lastUpdate,          \* static unsigned long
    firstCall,           \* static bool
    debug,               \* bool Updatable::debug, per object
    live,                \* addresses holding a constructed, not destroyed object
    updateCount,         \* int TestCounter::updateCount
    totalDelta,          \* unsigned long TestCounter::totalDelta
    clock,               \* the value millis() returns
    pc,                  \* "idle" | "loop" | "done" | "crashed": position of the running call
    op,                  \* "none" | "auto" | "explicit" | "debug": the running call
    i,                   \* loop index of the running call
    count,               \* int count = registeredInstances.Size()
    delta,               \* deltaTime handed to update()
    mode,                \* argument of setDebugMode
    now,                 \* unsigned long now = millis()
    \* ---- history of the run, read by the properties only
    notified,            \* <<receiver, deltaTime, since, index < Size()>> of each update() of the running call
    reg0,                \* registeredInstances when the running call began
    cnt0,                \* updateCount when the running call began
    tot0,                \* totalDelta when the running call began
    last0,               \* lastUpdate when the running call began
    first0,              \* firstCall when the running call began
    order,               \* live receivers in order of construction
    autoCalls,           \* number of updateAllInstances() calls begun
    prevNow,             \* millis() read by the latest updateAllInstances() call that returned
    since,               \* millis() at each receiver's last notification, or construction (tracked runs)
    expDebug,            \* flag each receiver must show: off when built, m after setDebugMode(m)
    dead,                \* addresses whose object was destroyed and that hold no new object
    reused,              \* some object was built at the address of a destroyed one (tracked runs)
    fault,               \* update() was invoked through OB or a destroyed object
    calls,               \* dispatch calls begun
    seen,                \* deltaTime of each updateAllInstances(deltaTime) begun in a receiver's life (tracked runs)
    mutated,             \* a receiver was built or destroyed inside an update() of the running call
    absentRan,           \* ~Updatable() has run for an object the registry does not hold
    before,              \* registeredInstances as the latest ~Updatable() found it (tracked runs)
    gone,                \* the receiver the latest ~Updatable() destroyed (tracked runs)
    firstNow             \* millis() read by the first updateAllInstances() call (tracked runs)

vars == <<registeredInstances, lastUpdate, firstCall, debug, live, updateCount,
          totalDelta, clock, pc, op, i, count, delta, mode, now, notified, reg0,
          cnt0, tot0, last0, first0, order, autoCalls, prevNow, since, expDebug,
          dead, reused, fault, calls, seen, mutated, absentRan, before, gone,
          firstNow>>

prog == <<registeredInstances, lastUpdate, firstCall, debug, live, updateCount,
          totalDelta>>
locals == <<i, count, delta, mode, now>>
history == <<notified, reg0, cnt0, tot0, last0, first0, order, autoCalls,
             prevNow, since, expDebug, dead, reused, fault, calls, seen, mutated,
             absentRan, before, gone, firstNow>>

Zero == [r \in Addrs |-> 0]
NoneSeen == [r \in Addrs |-> <<>>]
AllOff == [r \in Addrs |-> FALSE]

Range(s) == {s[k] : k \in 1..Len(s)}

\* receivers update() was invoked on in the running call, in order of invocation
Invoked == [k \in 1..Len(notified) |-> notified[k][1]]

\* ------------------------------------------------------------- Vector.h
Size(v) == Len(v)

PushBack(v, x) == Append(v, x)

\* operator[]: no bounds check, OB outside [0, Size())
At(v, idx) == IF idx >= 0 /\ idx < Size(v) THEN v[idx + 1] ELSE OB

\* Erase(idx): later elements shift left by one
Erase(v, idx) ==
    IF idx >= 0 /\ idx < Size(v)
    THEN [k \in 1..(Len(v) - 1) |-> IF k <= idx THEN v[k] ELSE v[k + 1]]
    ELSE v

\* ------------------------------------------------------------- Updatable.h
\* debug = false;
DefaultDebug == FALSE

\* a derived class registering a second time
RegisterTwice(reg, r) == PushBack(PushBack(reg, r), r)

\* a fixed-capacity registry that drops the PushBack once it holds one entry
RegisterFull(reg, r) == IF Size(reg) >= 1 THEN reg ELSE PushBack(reg, r)

\* a registry that puts the newest receiver first
RegisterFront(reg, r) == <<r>> \o reg

\* registeredInstances.PushBack(this)
Register(reg, r) == PushBack(reg, r)

\* indices i of the destructor's scan with registeredInstances[i] == this
Matches(reg, r) == {idx \in 0..(Size(reg) - 1) : At(reg, idx) = r}

\* the index at which the scan stops (break)
FirstMatch(reg, r) ==
    CHOOSE idx \in Matches(reg, r) : \A j \in Matches(reg, r) : idx <= j

\* a destructor that erases the last entry instead of the one it found
DeregisterLast(reg, r) ==
    IF Matches(reg, r) = {} THEN reg ELSE Erase(reg, Size(reg) - 1)

\* a destructor that leaves the registry alone
DeregisterNone(reg, r) == reg

\* a destructor that erases the entry its scan ended on, match or not
DeregisterBlind(reg, r) ==
    IF Matches(reg, r) = {} THEN Erase(reg, Size(reg) - 1)
                            ELSE Erase(reg, FirstMatch(reg, r))

\* a destructor that moves the last entry into the place of the one it found
DeregisterSwap(reg, r) ==
    IF Matches(reg, r) = {}
    THEN reg
    ELSE Erase([reg EXCEPT ![FirstMatch(reg, r) + 1] = reg[Size(reg)]],
               Size(reg) - 1)

\* for (i...) if (registeredInstances[i] == this) { Erase(i); break; }
Deregister(reg, r) ==
    IF Matches(reg, r) = {} THEN reg ELSE Erase(reg, FirstMatch(reg, r))

\* the operands exchanged
AutoDeltaSwapped(t, last) == (last - t) % ULongModulus

\* an explicit overflow branch that gives up when the clock has wrapped
AutoDeltaClamped(t, last) == IF t >= last THEN t - last ELSE 0

\* an explicit overflow branch one short: (maximum - last) + now
AutoDeltaOneShort(t, last) ==
    IF t >= last THEN t - last ELSE ((ULongModulus - 1) - last) + t

\* unsigned long delta = now - lastUpdate;
AutoDelta(t, last) == (t - last) % ULongModulus

\* the latch never cleared
LatchStuck == TRUE

\* firstCall = false;
LatchAfter == FALSE

\* the cursor left at the baseline
CursorStale(t, last) == last

\* lastUpdate = now; (after the first call)
CursorAfter(t, last) == t

\* i < registeredInstances.Size(): the bound read anew at every test
LoopTestLive(idx, cnt, reg) == idx < Size(reg)

\* i < count, the test of the three loops
LoopTest(idx, cnt, reg) == idx < cnt

\* i < count - 1
LoopCountShort(reg) == Size(reg) - 1

\* a do-while loop: the body runs once on an empty registry
LoopCountOnce(reg) == IF Size(reg) = 0 THEN 1 ELSE Size(reg)

\* int count = registeredInstances.Size(); in both updateAllInstances
LoopCount(reg) == Size(reg)

\* i < count - 1
DebugCountShort(reg) == Size(reg) - 1

\* i <= count
DebugCountOver(reg) == Size(reg) + 1

\* int count = registeredInstances.Size(); in setDebugMode
DebugCount(reg) == Size(reg)

\* the loop walking the registry from its end
ReceiverReversed(reg, idx) == At(reg, Size(reg) - 1 - idx)

\* a checked access that falls back on the last entry
ReceiverClamped(reg, idx) ==
    IF idx < Size(reg) THEN At(reg, idx) ELSE At(reg, Size(reg) - 1)

\* registeredInstances[i] in the loops
Receiver(reg, idx) == At(reg, idx)

\* bool debugMode()
DebugMode(r) == debug[r]

\* ------------------------------------------------------------- TestCounter
\* updateCount++
CountAfter(c) == c + 1

\* totalDelta = deltaTime
TotalAfterAssigned(t, d) == d % ULongModulus

\* totalDelta += deltaTime
TotalAfter(t, d) == (t + d) % ULongModulus

\* ------------------------------------------------------------- states
Init ==
    /\ registeredInstances = <<>>
    /\ lastUpdate = 0
    /\ firstCall = TRUE
    /\ debug = AllOff
    /\ live = {}
    /\ updateCount = Zero
    /\ totalDelta = Zero
    /\ clock = 0
    /\ pc = "idle"
    /\ op = "none"
    /\ i = 0
    /\ count = 0
    /\ delta = 0
    /\ mode = FALSE
    /\ now = 0
    /\ notified = <<>>
    /\ reg0 = <<>>
    /\ cnt0 = Zero
    /\ tot0 = Zero
    /\ last0 = 0
    /\ first0 = FALSE
    /\ order = <<>>
    /\ autoCalls = 0
    /\ prevNow = 0
    /\ since = Zero
    /\ expDebug = AllOff
    /\ dead = {}
    /\ reused = FALSE
    /\ fault = FALSE
    /\ calls = 0
    /\ seen = NoneSeen
    /\ mutated = FALSE
    /\ absentRan = FALSE
    /\ before = <<>>
    /\ gone = 0
    /\ firstNow = 0

\* millis() advances between calls, wrapping at the width of unsigned long.
Tick ==
    /\ pc = "idle"
    /\ clock' = (clock + 1) % ULongModulus
    /\ UNCHANGED <<prog, pc, op, locals, history>>

\* TestCounter(): Updatable() then updateCount(0), totalDelta(0), for the object
\* at r.
\* tracked: whether the run records since and reused.
Constructor(r, tracked) ==
    /\ r \notin live
    /\ debug' = [debug EXCEPT ![r] = DefaultDebug]
    /\ registeredInstances' = Register(registeredInstances, r)
    /\ live' = live \cup {r}
    /\ updateCount' = [updateCount EXCEPT ![r] = 0]
    /\ totalDelta' = [totalDelta EXCEPT ![r] = 0]
    /\ order' = Append(order, r)
    /\ since' = IF tracked THEN [since EXCEPT ![r] = clock] ELSE since
    /\ expDebug' = [expDebug EXCEPT ![r] = FALSE]
    /\ dead' = dead \ {r}
    /\ reused' = IF tracked THEN (reused \/ r \in dead) ELSE reused
    /\ seen' = [seen EXCEPT ![r] = <<>>]
    /\ UNCHANGED <<lastUpdate, firstCall, clock, pc, op, locals, notified, reg0,
                   cnt0, tot0, last0, first0, autoCalls, prevNow, fault, calls,
                   absentRan, before, gone, firstNow>>

\* new TestCounter(), or the definition of a static one: between calls
ConstructT(r, tracked) ==
    /\ pc = "idle"
    /\ Constructor(r, tracked)
    /\ UNCHANGED mutated

\* new TestCounter() from inside update(): the update() the loop invoked last
\* is still running, i++ has not been reached
ConstructInUpdate(r) ==
    /\ pc = "loop"
    /\ op \in {"auto", "explicit"}
    /\ Len(notified) >= 1
    /\ notified[Len(notified)][1] # OB
    /\ Constructor(r, FALSE)
    /\ mutated' = TRUE

Construct(r) == ConstructT(r, FALSE)

ConstructTracked(r) == ConstructT(r, TRUE)

\* ~Updatable() of the receiver at r; the freed object's fields are no longer
\* state
Destructor(r) ==
    /\ r \in live
    /\ registeredInstances' = Deregister(registeredInstances, r)
    /\ live' = live \ {r}
    /\ debug' = [debug EXCEPT ![r] = FALSE]
    /\ updateCount' = [updateCount EXCEPT ![r] = 0]
    /\ totalDelta' = [totalDelta EXCEPT ![r] = 0]
    /\ order' = SelectSeq(order, LAMBDA x : x # r)
    /\ since' = [since EXCEPT ![r] = 0]
    /\ expDebug' = [expDebug EXCEPT ![r] = FALSE]
    /\ dead' = dead \cup {r}
    /\ seen' = [seen EXCEPT ![r] = <<>>]
    /\ UNCHANGED <<lastUpdate, firstCall, clock, pc, op, locals, notified, reg0,
                   cnt0, tot0, last0, first0, autoCalls, prevNow, reused, fault,
                   calls, absentRan, firstNow>>

\* delete counter: between calls
Destroy(r) ==
    /\ pc = "idle"
    /\ Destructor(r)
    /\ UNCHANGED <<mutated, before, gone>>

\* the same, recording what the destructor found
DestroyTracked(r) ==
    /\ pc = "idle"
    /\ Destructor(r)
    /\ before' = registeredInstances
    /\ gone' = r
    /\ UNCHANGED mutated

\* delete of a receiver from inside update(): the update() the loop invoked
\* last is still running, i++ has not been reached
DestroyInUpdate(r) ==
    /\ pc = "loop"
    /\ op \in {"auto", "explicit"}
    /\ Len(notified) >= 1
    /\ notified[Len(notified)][1] # OB
    /\ Destructor(r)
    /\ mutated' = TRUE
    /\ UNCHANGED <<before, gone>>

\* ~Updatable() of an object the registry does not hold: a copy made by the
\* implicit copy constructor (which registers nothing), at a free heap address
\* or on the stack, is destroyed; the scan finds no match
DestroyCopy(r) ==
    /\ pc = "idle"
    /\ r \notin live
    /\ registeredInstances' = Deregister(registeredInstances, r)
    /\ absentRan' = TRUE
    /\ UNCHANGED <<lastUpdate, firstCall, debug, live, updateCount, totalDelta,
                   clock, pc, op, locals, notified, reg0, cnt0, tot0, last0,
                   first0, order, autoCalls, prevNow, since, expDebug, dead,
                   reused, fault, calls, seen, mutated, before, gone, firstNow>>

\* what a call records as it begins
Begin(kind) ==
    /\ op' = kind
    /\ notified' = <<>>
    /\ reg0' = registeredInstances
    /\ cnt0' = updateCount
    /\ tot0' = totalDelta
    /\ last0' = lastUpdate
    /\ first0' = firstCall

\* static void updateAllInstances(): up to the loop
\* tracked: whether the run records firstNow.
UpdateAllInstancesT(tracked) ==
    /\ pc = "idle"
    /\ calls < MaxDispatches
    /\ Begin("auto")
    /\ now' = clock
    /\ IF firstCall
       THEN /\ firstCall' = LatchAfter
            /\ lastUpdate' = clock
            /\ pc' = "done"
            /\ UNCHANGED <<delta, count, i>>
       ELSE /\ delta' = AutoDelta(clock, lastUpdate)
            /\ lastUpdate' = CursorAfter(clock, lastUpdate)
            /\ count' = LoopCount(registeredInstances)
            /\ i' = 0
            /\ pc' = "loop"
            /\ UNCHANGED firstCall
    /\ autoCalls' = autoCalls + 1
    /\ calls' = calls + 1
    /\ firstNow' = IF tracked /\ firstCall THEN clock ELSE firstNow
    /\ UNCHANGED <<registeredInstances, debug, live, updateCount, totalDelta,
                   clock, mode, order, prevNow, since, expDebug, dead, reused,
                   fault, seen, mutated, absentRan, before, gone>>

UpdateAllInstances == UpdateAllInstancesT(FALSE)

UpdateAllInstancesTracked == UpdateAllInstancesT(TRUE)

\* entry of updateAllInstances(unsigned long deltaTime): the argument, i = 0
\* tracked: whether the run records seen.
ExplicitEntry(deltaTime, tracked) ==
    /\ pc = "idle"
    /\ calls < MaxDispatches
    /\ Begin("explicit")
    /\ delta' = deltaTime
    /\ i' = 0
    /\ pc' = "loop"
    /\ calls' = calls + 1
    /\ seen' = IF tracked
               THEN [r \in Addrs |-> IF r \in live THEN Append(seen[r], deltaTime)
                                                   ELSE seen[r]]
               ELSE seen
    /\ UNCHANGED <<registeredInstances, debug, live, updateCount, totalDelta,
                   clock, mode, now, order, autoCalls, prevNow, since, expDebug,
                   dead, reused, fault, mutated, absentRan, before, gone,
                   firstNow>>

\* an early return for a zero deltaTime
UpdateAllInstancesDeltaSkipZero(deltaTime, tracked) ==
    /\ ExplicitEntry(deltaTime, tracked)
    /\ count' = IF deltaTime = 0 THEN 0 ELSE LoopCount(registeredInstances)
    /\ UNCHANGED <<lastUpdate, firstCall>>

\* an explicit dispatch that also takes the baseline of the automatic one
UpdateAllInstancesDeltaBaseline(deltaTime, tracked) ==
    /\ ExplicitEntry(deltaTime, tracked)
    /\ count' = LoopCount(registeredInstances)
    /\ lastUpdate' = clock
    /\ firstCall' = FALSE

\* static void updateAllInstances(unsigned long deltaTime): up to the loop
UpdateAllInstancesDeltaT(deltaTime, tracked) ==
    /\ ExplicitEntry(deltaTime, tracked)
    /\ count' = LoopCount(registeredInstances)
    /\ UNCHANGED <<lastUpdate, firstCall>>

UpdateAllInstancesDelta(deltaTime) == UpdateAllInstancesDeltaT(deltaTime, FALSE)

UpdateAllInstancesDeltaTracked(deltaTime) == UpdateAllInstancesDeltaT(deltaTime, TRUE)

\* a setDebugMode that also arms the baseline of the automatic dispatch again
SetDebugModeRearm(m) ==
    /\ pc = "idle"
    /\ Begin("debug")
    /\ mode' = m
    /\ count' = DebugCount(registeredInstances)
    /\ i' = 0
    /\ pc' = "loop"
    /\ firstCall' = TRUE
    /\ expDebug' = [r \in Addrs |-> IF r \in live THEN m ELSE FALSE]
    /\ UNCHANGED <<registeredInstances, lastUpdate, debug, live, updateCount,
                   totalDelta, clock, delta, now, order, autoCalls, prevNow,
                   since, dead, reused, fault, calls, seen, mutated, absentRan,
                   before, gone, firstNow>>

\* static void setDebugMode(bool mode): up to the loop
SetDebugMode(m) ==
    /\ pc = "idle"
    /\ Begin("debug")
    /\ mode' = m
    /\ count' = DebugCount(registeredInstances)
    /\ i' = 0
    /\ pc' = "loop"
    /\ expDebug' = [r \in Addrs |-> IF r \in live THEN m ELSE FALSE]
    /\ UNCHANGED <<prog, clock, delta, now, order, autoCalls, prevNow, since,
                   dead, reused, fault, calls, seen, mutated, absentRan, before,
                   gone, firstNow>>

\* registeredInstances[i]->update(delta); i++
\* A call through OB or a destroyed object is undefined: the program either
\* goes on with the loop or stops.
\* timed: whether the run records since.
UpdateStepT(timed) ==
    /\ pc = "loop"
    /\ op \in {"auto", "explicit"}
    /\ LoopTest(i, count, registeredInstances)
    /\ LET r == Receiver(registeredInstances, i)
           inRange == i < Size(registeredInstances)
       IN  IF r \in live
           THEN /\ notified' = Append(notified, <<r, delta, since[r], inRange>>)
                /\ updateCount' = [updateCount EXCEPT ![r] = CountAfter(@)]
                /\ totalDelta' = [totalDelta EXCEPT ![r] = TotalAfter(@, delta)]
                /\ since' = IF timed THEN [since EXCEPT ![r] = clock] ELSE since
                /\ UNCHANGED <<fault, pc>>
           ELSE /\ notified' = Append(notified, <<r, delta, 0, inRange>>)
                /\ fault' = TRUE
                /\ pc' \in {"loop", "crashed"}
                /\ UNCHANGED <<updateCount, totalDelta, since>>
    /\ i' = i + 1
    /\ UNCHANGED <<registeredInstances, lastUpdate, firstCall, debug, live, clock,
                   op, count, delta, mode, now, reg0, cnt0, tot0, last0, first0,
                   order, autoCalls, prevNow, expDebug, dead, reused, calls,
                   seen, mutated, absentRan, before, gone, firstNow>>

UpdateStep == UpdateStepT(FALSE)

UpdateStepTimed == UpdateStepT(TRUE)

\* registeredInstances[i]->_setDebugMode(mode); i++
DebugStep ==
    /\ pc = "loop"
    /\ op = "debug"
    /\ LoopTest(i, count, registeredInstances)
    /\ LET r == Receiver(registeredInstances, i) IN
        IF r \in live
        THEN /\ debug' = [debug EXCEPT ![r] = mode]
             /\ UNCHANGED <<fault, pc>>
        ELSE /\ fault' = TRUE
             /\ pc' \in {"loop", "crashed"}
             /\ UNCHANGED debug
    /\ i' = i + 1
    /\ UNCHANGED <<registeredInstances, lastUpdate, firstCall, live, updateCount,
                   totalDelta, clock, op, count, delta, mode, now, notified,
                   reg0, cnt0, tot0, last0, first0, order, autoCalls, prevNow,
                   since, expDebug, dead, reused, calls, seen, mutated,
                   absentRan, before, gone, firstNow>>

\* a loop that also tests i against the present Size()
LoopExitAtSize ==
    /\ pc = "loop"
    /\ (i >= count \/ i >= Size(registeredInstances))
    /\ pc' = "done"
    /\ UNCHANGED <<prog, clock, op, locals, history>>

\* an exit taken only once i is past count: at i = count the loop neither
\* runs its body nor ends
LoopExitPast ==
    /\ pc = "loop"
    /\ i > count
    /\ pc' = "done"
    /\ UNCHANGED <<prog, clock, op, locals, history>>

\* i < count fails: the loop is over
LoopExit ==
    /\ pc = "loop"
    /\ ~LoopTest(i, count, registeredInstances)
    /\ pc' = "done"
    /\ UNCHANGED <<prog, clock, op, locals, history>>

\* the call returns to the control loop; its locals go out of scope
Return ==
    /\ pc = "done"
    /\ pc' = "idle"
    /\ op' = "none"
    /\ i' = 0
    /\ count' = 0
    /\ delta' = 0
    /\ mode' = FALSE
    /\ now' = 0
    /\ notified' = <<>>
    /\ reg0' = <<>>
    /\ cnt0' = Zero
    /\ tot0' = Zero
    /\ last0' = 0
    /\ first0' = FALSE
    /\ mutated' = FALSE
    /\ prevNow' = IF op = "auto" THEN now ELSE prevNow
    /\ UNCHANGED <<prog, clock, order, autoCalls, since, expDebug, dead, reused,
                   fault, calls, seen, absentRan, before, gone, firstNow>>

\* ------------------------------------------------------------- specifications
\* The control loop: construction, destruction, the clock and both dispatches.
Next ==
    \/ Tick
    \/ \E r \in Ids : Construct(r)
    \/ \E r \in Ids : Destroy(r)
    \/ UpdateAllInstances
    \/ \E e \in 0..MaxElapsed : UpdateAllInstancesDelta(e)
    \/ UpdateStep
    \/ LoopExit
    \/ Return

Spec == Init /\ [][Next]_vars

\* The automatic per-cycle dispatch alone, recording when each receiver was
\* last notified.
NextElapsed ==
    \/ Tick
    \/ \E r \in Ids : ConstructTracked(r)
    \/ \E r \in Ids : Destroy(r)
    \/ UpdateAllInstances
    \/ UpdateStepTimed
    \/ LoopExit
    \/ Return

SpecElapsed == Init /\ [][NextElapsed]_vars

\* Construction, destruction and explicit dispatch, recording address reuse and
\* the deltaTime of the dispatches of each receiver's life.
NextLifecycle ==
    \/ \E r \in Ids : ConstructTracked(r)
    \/ \E r \in Ids : Destroy(r)
    \/ \E e \in 0..MaxElapsed : UpdateAllInstancesDeltaTracked(e)
    \/ UpdateStep
    \/ LoopExit
    \/ Return

SpecLifecycle == Init /\ [][NextLifecycle]_vars

\* Debug broadcast among construction, destruction and explicit dispatch.
NextDebug ==
    \/ \E r \in Ids : Construct(r)
    \/ \E r \in Ids : Destroy(r)
    \/ \E m \in BOOLEAN : SetDebugMode(m)
    \/ \E e \in 0..MaxElapsed : UpdateAllInstancesDelta(e)
    \/ UpdateStep
    \/ DebugStep
    \/ LoopExit
    \/ Return

SpecDebug == Init /\ [][NextDebug]_vars

\* Receivers destroyed from inside update() during a dispatch.
NextReentrant ==
    \/ \E r \in Ids : Construct(r)
    \/ \E r \in Ids : Destroy(r)
    \/ \E r \in Ids : DestroyInUpdate(r)
    \/ UpdateAllInstances
    \/ \E e \in 0..MaxElapsed : UpdateAllInstancesDelta(e)
    \/ UpdateStep
    \/ LoopExit
    \/ Return

SpecReentrant == Init /\ [][NextReentrant]_vars

\* addresses a copy of a receiver can be placed at: the heap's, and the stack
CopyAddrs == Ids \cup {NumReceivers + 1}

\* Copies of receivers destroyed among construction, destruction, the clock
\* and the automatic dispatch.
NextCopies ==
    \/ Tick
    \/ \E r \in Ids : Construct(r)
    \/ \E r \in Ids : Destroy(r)
    \/ \E r \in CopyAddrs : DestroyCopy(r)
    \/ UpdateAllInstances
    \/ UpdateStep
    \/ LoopExit
    \/ Return

SpecCopies == Init /\ [][NextCopies]_vars

\* Construction and destruction among the clock, the automatic dispatch and the
\* debug broadcast: every static and every per-object field takes its values.
NextFields ==
    \/ Tick
    \/ \E r \in Ids : Construct(r)
    \/ \E r \in Ids : Destroy(r)
    \/ UpdateAllInstances
    \/ \E m \in BOOLEAN : SetDebugMode(m)
    \/ UpdateStep
    \/ DebugStep
    \/ LoopExit
    \/ Return

SpecFields == Init /\ [][NextFields]_vars

\* Three receivers, one of them in static storage, built, destroyed and
\* dispatched to with one deltaTime, recording what each destructor found.
NextOrder ==
    \/ \E r \in Addrs : Construct(r)
    \/ \E r \in Addrs : DestroyTracked(r)
    \/ UpdateAllInstancesDelta(MaxElapsed)
    \/ UpdateStep
    \/ LoopExit
    \/ Return

SpecOrder == Init /\ [][NextOrder]_vars

\* Both dispatches among construction and destruction, every update() returning
\* without touching the registry; a call that is running goes on running.
NextTermination ==
    \/ \E r \in Ids : Construct(r)
    \/ \E r \in Ids : Destroy(r)
    \/ UpdateAllInstances
    \/ \E e \in 0..MaxElapsed : UpdateAllInstancesDelta(e)
    \/ UpdateStep
    \/ LoopExit
    \/ Return

SpecTermination ==
    /\ Init
    /\ [][NextTermination]_vars
    /\ WF_vars(UpdateStep)
    /\ WF_vars(LoopExit)
    /\ WF_vars(Return)

\* The automatic dispatch alone, recording the first clock reading.
NextCursor ==
    \/ Tick
    \/ \E r \in Ids : Construct(r)
    \/ \E r \in Ids : Destroy(r)
    \/ UpdateAllInstancesTracked
    \/ UpdateStep
    \/ LoopExit
    \/ Return

SpecCursor == Init /\ [][NextCursor]_vars

\* Receivers built and destroyed between calls and from inside update(), among
\* explicit dispatches with one deltaTime and debug broadcasts.
NextNested ==
    \/ \E r \in Ids : Construct(r)
    \/ \E r \in Ids : Destroy(r)
    \/ \E r \in Ids : ConstructInUpdate(r)
    \/ \E r \in Ids : DestroyInUpdate(r)
    \/ \E m \in BOOLEAN : SetDebugMode(m)
    \/ UpdateAllInstancesDelta(MaxElapsed)
    \/ UpdateStep
    \/ DebugStep
    \/ LoopExit
    \/ Return

SpecNested == Init /\ [][NextNested]_vars

\* Receivers built from inside update(), none destroyed there, among both
\* dispatches.
NextGrowth ==
    \/ \E r \in Ids : Construct(r)
    \/ \E r \in Ids : Destroy(r)
    \/ \E r \in Ids : ConstructInUpdate(r)
    \/ UpdateAllInstances
    \/ \E e \in 0..MaxElapsed : UpdateAllInstancesDelta(e)
    \/ UpdateStep
    \/ LoopExit
    \/ Return

SpecGrowth == Init /\ [][NextGrowth]_vars

\* Both dispatches and the debug broadcast among construction, destruction and
\* the clock; the explicit dispatch with one deltaTime.
NextFrame ==
    \/ Tick
    \/ \E r \in Ids : Construct(r)
    \/ \E r \in Ids : Destroy(r)
    \/ UpdateAllInstances
    \/ UpdateAllInstancesDelta(MaxElapsed)
    \/ \E m \in BOOLEAN : SetDebugMode(m)
    \/ UpdateStep
    \/ DebugStep
    \/ LoopExit
    \/ Return

SpecFrame == Init /\ [][NextFrame]_vars

\* ------------------------------------------------------------- properties
\* a call that notifies: every updateAllInstances call but the first automatic one
NotifyingCall == op = "explicit" \/ (op = "auto" /\ autoCalls >= 2)

\* number of update() invocations of the running call made on receiver r
Times(r) == Cardinality({k \in 1..Len(notified) : notified[k][1] = r})

\* C1: when updateAllInstances(E) has finished its loop, every receiver that was
\* registered when it was called has had update invoked exactly once, with E;
\* its updateCount is one more and its totalDelta is E more (in unsigned long)
\* than when the call began.
C1_ExplicitDispatchOnce ==
    (pc = "done" /\ op = "explicit") =>
        /\ Len(notified) = Len(reg0)
        /\ \A k \in 1..Len(notified) : notified[k][2] = delta
        /\ \A r \in Range(reg0) :
            /\ Times(r) = 1
            /\ updateCount[r] = cnt0[r] + 1
            /\ totalDelta[r] = (tot0[r] + delta) % ULongModulus

\* two receivers, already notified before, notified again with a non-zero E
C1_Witness ==
    /\ pc = "done"
    /\ op = "explicit"
    /\ Len(reg0) = 2
    /\ delta = 2
    /\ \A r \in Range(reg0) : cnt0[r] >= 1 /\ updateCount[r] = cnt0[r] + 1

\* C2: no update() is ever invoked on an address whose object was destroyed
\* (nor through OB), and a notifying dispatch that has finished its loop has
\* notified exactly the receivers that remain: as many invocations as there are
\* live receivers, one on each.
C2_DispatchAfterDestroy ==
    /\ ~fault
    /\ \A k \in 1..Len(notified) : Invoked[k] \notin dead /\ Invoked[k] \in live
    /\ (pc = "done" /\ NotifyingCall) =>
        /\ Range(Invoked) = live
        /\ Len(notified) = Cardinality(live)

\* one of two receivers was destroyed, then a dispatch notified the other one
C2_Witness ==
    /\ pc = "done"
    /\ op = "explicit"
    /\ dead # {}
    /\ Cardinality(live) = 1
    /\ Len(notified) = 1

\* C3: the registry holds no reference to an address whose object was destroyed.
C3_NoDestroyedInRegistry ==
    \A r \in dead : r \notin Range(registeredInstances)

\* a receiver was destroyed, another is registered and a dispatch has run
C3_Witness ==
    /\ dead # {}
    /\ Len(registeredInstances) >= 1
    /\ calls >= 1

\* C4: no reference appears twice in the registry, also after an address is
\* reused by a new receiver.
C4_NoDuplicates ==
    \A j, k \in 1..Len(registeredInstances) :
        j # k => registeredInstances[j] # registeredInstances[k]

\* two registered receivers, one of them built at the address of a destroyed one
C4_Witness ==
    /\ reused
    /\ Len(registeredInstances) = 2

C6_RegistrationOrder ==
    (op \in {"auto", "explicit"}) =>
        \A a, b \in 1..Len(order) :
            a < b =>
                \A kb \in 1..Len(notified) :
                    Invoked[kb] = order[b] =>
                        \E ka \in 1..(kb - 1) : Invoked[ka] = order[a]

\* an automatic dispatch notified two receivers, registered against address order
C6_Witness ==
    /\ pc = "done"
    /\ op = "auto"
    /\ order = <<2, 1>>
    /\ Invoked = <<2, 1>>

\* C7: the first automatic call returns with nobody notified, no counter changed
\* and the cursor at the clock value it read; in the second, every update()
\* carries the difference of the two clock readings, and every registered
\* receiver is notified.
C7_FirstAndSecondAuto ==
    /\ (op = "auto" /\ autoCalls = 1) =>
        /\ pc = "done"
        /\ notified = <<>>
        /\ updateCount = cnt0
        /\ totalDelta = tot0
        /\ registeredInstances = reg0
        /\ lastUpdate = now
        /\ ~firstCall
    /\ (op = "auto" /\ autoCalls = 2) =>
        /\ \A k \in 1..Len(notified) :
            notified[k][2] = (now - prevNow) % ULongModulus
        /\ pc = "done" => (Len(notified) = Len(reg0) /\ Range(Invoked) = Range(reg0))

\* the second automatic call notified a receiver with a non-zero elapsed time
C7_Witness ==
    /\ pc = "done"
    /\ op = "auto"
    /\ autoCalls = 2
    /\ Len(notified) >= 1
    /\ notified[1][2] = 2
    /\ now # prevNow

\* C8: when the clock reading of an automatic call is below that of the previous
\* one, the elapsed value is (maximum - last) + current + 1, a value of the
\* clock's range.
C8_Wraparound ==
    (op = "auto" /\ autoCalls >= 2 /\ now < prevNow) =>
        /\ delta = ((ULongModulus - 1) - prevNow) + now + 1
        /\ delta \in ULong
        /\ \A k \in 1..Len(notified) : notified[k][2] = delta

\* the clock went from its maximum to a small value and a receiver was notified
C8_Witness ==
    /\ pc = "done"
    /\ op = "auto"
    /\ prevNow = ULongModulus - 1
    /\ now = 1
    /\ Len(notified) >= 1
    /\ notified[1][2] = 2

\* C9 as claimed: every update() of an automatic dispatch carries the clock time
\* elapsed since that receiver's own previous notification (since its
\* construction, for a receiver never notified).
C9_SinceOwnPrevious ==
    (op = "auto") =>
        \A k \in 1..Len(notified) :
            notified[k][2] = (now - notified[k][3]) % ULongModulus

\* C9 amended: every update() of an automatic dispatch carries the clock time
\* elapsed since the previous automatic dispatch call, whenever the receiver
\* was registered or last notified.
C9_SincePreviousAutoCall ==
    (op = "auto") =>
        \A k \in 1..Len(notified) :
            notified[k][2] = (now - prevNow) % ULongModulus

\* a receiver that was built or last notified at another clock reading than the
\* previous automatic call's is notified with the time since that call
C9_Witness ==
    /\ pc = "done"
    /\ op = "auto"
    /\ autoCalls = 3
    /\ Len(notified) >= 1
    /\ notified[1][3] # prevNow
    /\ notified[1][2] # (now - notified[1][3]) % ULongModulus

\* C10: when setDebugMode(m) has finished its loop every registered receiver
\* reports m through debugMode(); and outside that loop each live receiver
\* reports off if it was built after the last setDebugMode call, and the mode of
\* that call otherwise.
C10_DebugMode ==
    /\ (pc = "done" /\ op = "debug") =>
        \A r \in Range(registeredInstances) : DebugMode(r) = mode
    /\ ~(pc = "loop" /\ op = "debug") =>
        \A r \in live : DebugMode(r) = expDebug[r]

\* after setDebugMode(true) a new receiver is off beside one that is on
C10_Witness ==
    /\ pc = "idle"
    /\ \E a, b \in live : DebugMode(a) /\ ~DebugMode(b)

\* C11: when updateAllInstances(0) has finished its loop, every receiver that
\* was registered when it was called has had update invoked exactly once, with
\* 0: its updateCount is one more and its totalDelta is what it was.
C11_ZeroElapsed ==
    (pc = "done" /\ op = "explicit" /\ delta = 0) =>
        /\ Len(notified) = Len(reg0)
        /\ \A k \in 1..Len(notified) : notified[k][2] = 0
        /\ \A r \in Range(reg0) :
            /\ Times(r) = 1
            /\ updateCount[r] = cnt0[r] + 1
            /\ totalDelta[r] = tot0[r]

\* updateAllInstances(0) notified two receivers, one of them holding a non-zero
\* total from an earlier dispatch
C11_Witness ==
    /\ pc = "done"
    /\ op = "explicit"
    /\ delta = 0
    /\ Len(reg0) = 2
    /\ Len(notified) = 2
    /\ \E r \in Range(reg0) : tot0[r] # 0 /\ totalDelta[r] = tot0[r]

\* the sum of the elements of a sequence of numbers
RECURSIVE SumSeq(_)
SumSeq(s) == IF s = <<>> THEN 0 ELSE s[1] + SumSeq(Tail(s))

\* C12: between calls and at the end of a dispatch, a live receiver that has
\* been registered across the explicit dispatches E1..Ek holds updateCount = k
\* and totalDelta = E1 + ... + Ek (in unsigned long), whatever other receivers
\* were registered or destroyed meanwhile.
C12_Accumulates ==
    (pc \in {"idle", "done"}) =>
        \A r \in live :
            /\ updateCount[r] = Len(seen[r])
            /\ totalDelta[r] = SumSeq(seen[r]) % ULongModulus

\* one receiver went through the dispatches 1, 2, 0 and holds count 3 and
\* total 3, beside a receiver that was registered for fewer of them
C12_Witness ==
    /\ pc = "idle"
    /\ \E r, q \in live :
        /\ seen[r] = <<1, 2, 0>>
        /\ updateCount[r] = 3
        /\ totalDelta[r] = 3
        /\ Len(seen[q]) < 3

\* C13: a destructor run for an object the registry does not hold leaves the
\* registry, the cursor lastUpdate and the latch firstCall as they were, raises
\* no fault and does not stop the program.
C13_AbsentDeregistration ==
    [][(\E r \in CopyAddrs : DestroyCopy(r)) =>
           /\ registeredInstances' = registeredInstances
           /\ lastUpdate' = lastUpdate
           /\ firstCall' = firstCall
           /\ fault' = fault
           /\ pc' = pc]_vars

\* such a destructor has run, and running it here (a copy on the stack) gives
\* this very state: two receivers registered, the latch cleared, the cursor set
C13_Witness ==
    /\ absentRan
    /\ pc = "idle"
    /\ Len(registeredInstances) = 2
    /\ ~firstCall
    /\ lastUpdate # 0

\* C14: an explicit dispatch leaves lastUpdate and firstCall as they were when
\* it was called; so outside automatic calls the latch and the cursor are those
\* the automatic calls alone left, the first automatic call is the baseline and
\* every later one hands out the time since the previous automatic call,
\* whatever explicit dispatches came before or between.
C14_ExplicitLeavesCursor ==
    /\ (op = "explicit") => (lastUpdate = last0 /\ firstCall = first0)
    /\ (op \in {"none", "explicit"}) =>
        /\ firstCall = (autoCalls = 0)
        /\ lastUpdate = IF autoCalls = 0 THEN 0 ELSE prevNow
    /\ (op = "auto" /\ autoCalls = 1) => (first0 /\ notified = <<>>)
    /\ (op = "auto" /\ autoCalls >= 2) =>
        (~first0 /\ delta = (now - prevNow) % ULongModulus)

\* after the baseline call, with the clock past the cursor, an explicit dispatch
\* notified two receivers and the cursor is where the baseline call left it
C14_Witness ==
    /\ pc = "done"
    /\ op = "explicit"
    /\ autoCalls = 1
    /\ Len(notified) = 2
    /\ delta # 0
    /\ last0 # 0
    /\ clock # last0
    /\ lastUpdate = last0

\* C15 as claimed: a dispatch called on an empty registry, automatic or explicit,
\* notifies nobody and leaves the registry, the cursor and the latch as they were.
C15_EmptyDispatchNoOp ==
    (pc = "done" /\ op \in {"auto", "explicit"} /\ reg0 = <<>>) =>
        /\ notified = <<>>
        /\ registeredInstances = reg0
        /\ lastUpdate = last0
        /\ firstCall = first0

\* C15 amended: a dispatch called on an empty registry notifies nobody and leaves
\* the registry and every counter as they were; the explicit one also leaves the
\* cursor and the latch, the automatic one sets the cursor to the clock value it
\* read and leaves the latch cleared.
C15_EmptyDispatch ==
    (pc = "done" /\ op \in {"auto", "explicit"} /\ reg0 = <<>>) =>
        /\ notified = <<>>
        /\ registeredInstances = reg0
        /\ updateCount = cnt0
        /\ totalDelta = tot0
        /\ (op = "explicit") => (lastUpdate = last0 /\ firstCall = first0)
        /\ (op = "auto") => (lastUpdate = now /\ ~firstCall)

\* an automatic call after the baseline found the registry empty and moved the
\* cursor
C15_Witness ==
    /\ pc = "done"
    /\ op = "auto"
    /\ reg0 = <<>>
    /\ autoCalls >= 2
    /\ notified = <<>>
    /\ lastUpdate # last0

\* C16: nothing guards a dispatch against a receiver destroyed inside update():
\* the loop bound stays the size read before the loop, and a loop that ends has
\* read every index below it whatever the registry's size has become; a read at
\* an index at or beyond the current size, and a receiver registered all along
\* but not notified when the loop ends, come only with such a destruction.
C16_UnguardedDispatch ==
    (NotifyingCall /\ pc \in {"loop", "done", "crashed"}) =>
        /\ count = Len(reg0)
        /\ (pc = "done") => (Len(notified) = count)
        /\ (\E k \in 1..Len(notified) : ~notified[k][4]) => mutated
        /\ (pc = "done" /\ \E r \in live \cap Range(reg0) : Times(r) = 0) => mutated

\* a receiver deleted itself inside update(): the loop then read past the end of
\* the registry and ended without notifying the receiver still registered
C16_Witness ==
    /\ pc = "done"
    /\ mutated
    /\ Len(registeredInstances) < count
    /\ \E k \in 1..Len(notified) : ~notified[k][4]
    /\ \E r \in live \cap Range(reg0) :
        r \in Range(registeredInstances) /\ Times(r) = 0

\* C17: the step that constructs a receiver changes the registry to the old one
\* with the new reference appended, and leaves lastUpdate, firstCall and the
\* debug flag of every other receiver as they were.
C17_RegistrationAppends ==
    [][\A r \in Ids :
           (r \notin live /\ r \in live') =>
               /\ registeredInstances' = Append(registeredInstances, r)
               /\ lastUpdate' = lastUpdate
               /\ firstCall' = firstCall
               /\ \A q \in Ids \ {r} : debug'[q] = debug[q]]_vars

\* a receiver was built after setDebugMode(true) and automatic calls: it is last
\* in the registry and off, the one before it is still on, the cursor is set
C17_Witness ==
    /\ pc = "idle"
    /\ Len(registeredInstances) = 2
    /\ DebugMode(registeredInstances[1])
    /\ ~DebugMode(registeredInstances[2])
    /\ ~firstCall
    /\ lastUpdate # 0

C19_LaterAutoDispatch ==
    (op = "auto" /\ autoCalls >= 2) =>
        /\ lastUpdate = now
        /\ delta = (now - last0) % ULongModulus
        /\ \A k \in 1..Len(notified) : notified[k][2] = delta
        /\ (pc = "done") =>
            /\ Len(notified) = Len(reg0)
            /\ \A r \in Range(reg0) :
                Times(r) = 1 /\ updateCount[r] = cnt0[r] + 1

\* the clock had not advanced since the previous automatic call: two receivers
\* were notified with 0
C19_Witness ==
    /\ pc = "done"
    /\ op = "auto"
    /\ autoCalls >= 2
    /\ now = last0
    /\ delta = 0
    /\ Len(notified) = 2

\* C20: firstCall is set in the initial state, where the registry is empty; it
\* is set exactly as long as no automatic call has begun; no step sets it once
\* it is cleared; and an automatic call that ends with nobody notified although
\* receivers were registered is the first automatic call of the run.
C20_OneShotLatch ==
    /\ (firstCall = TRUE /\ registeredInstances = <<>>)
    /\ [](firstCall = (autoCalls = 0))
    /\ [][~firstCall => ~firstCall']_vars
    /\ []((pc = "done" /\ op = "auto" /\ reg0 # <<>> /\ notified = <<>>)
            => autoCalls = 1)

\* the first automatic call found two receivers, notified neither and cleared
\* the latch
C20_Witness ==
    /\ pc = "done"
    /\ op = "auto"
    /\ autoCalls = 1
    /\ first0
    /\ ~firstCall
    /\ Len(reg0) = 2
    /\ notified = <<>>

\* C21: the step that destroys a receiver leaves the registry without that
\* receiver's entry, one entry shorter and with all other entries in the order
\* they had; and a dispatch invokes update() along the registry as it found it.
C21_ErasePreservesOrder ==
    /\ [][\A r \in Addrs :
              (r \in live /\ r \notin live') =>
                  /\ registeredInstances' =
                         SelectSeq(registeredInstances, LAMBDA x : x # r)
                  /\ Len(registeredInstances') = Len(registeredInstances) - 1]_vars
    /\ []((pc = "done" /\ op = "explicit") => Invoked = reg0)

\* the middle one of three receivers was destroyed, and the dispatch that
\* followed notified the first and the third, in that order
C21_Witness ==
    /\ Len(before) = 3
    /\ gone = before[2]
    /\ registeredInstances = <<before[1], before[3]>>
    /\ pc = "done"
    /\ op = "explicit"
    /\ Invoked = registeredInstances

\* C22: a dispatch call whose update() calls return and leave the registry alone
\* stays within its count, ends its loop after one update() per entry it found
\* (none on the first automatic call), never stops the program, and returns:
\* whenever a call is running, control is back with the caller later on.
C22_DispatchTerminates ==
    /\ []((pc = "loop") => (i <= count /\ Len(notified) = i))
    /\ []((pc = "done" /\ NotifyingCall) =>
            (Len(notified) = Len(reg0) /\ i = count))
    /\ []((pc = "done" /\ op = "auto" /\ autoCalls = 1) => notified = <<>>)
    /\ [](pc # "crashed")
    /\ ((pc # "idle") ~> (pc = "idle"))

\* every dispatch of the run has returned, each having notified two receivers
C22_Witness ==
    /\ pc = "idle"
    /\ calls = MaxDispatches
    /\ autoCalls >= 1
    /\ \E a, b \in live : a # b /\ updateCount[a] >= 1 /\ updateCount[b] >= 1

\* C23: during and after every automatic call the cursor is the clock value that
\* call read; and a receiver notified by every automatic call after the first
\* holds, between calls, a totalDelta equal to the latest reading minus the
\* first one in unsigned long arithmetic, wraparound included.
C23_NoTimeLost ==
    /\ (op = "auto") => lastUpdate = now
    /\ (pc = "idle" /\ autoCalls >= 1) =>
        /\ lastUpdate = prevNow
        /\ \A r \in live :
            (updateCount[r] = autoCalls - 1) =>
                totalDelta[r] = (prevNow - firstNow) % ULongModulus

\* three automatic calls, the clock wrapping between the first and the last: a
\* receiver notified by the second and the third holds their difference
C23_Witness ==
    /\ pc = "idle"
    /\ autoCalls = 3
    /\ prevNow < firstNow
    /\ \E r \in live :
        /\ updateCount[r] = 2
        /\ totalDelta[r] = ULongModulus - firstNow + prevNow
        /\ totalDelta[r] # 0

C25_BuiltInsideUpdate ==
    /\ Range(registeredInstances) = live
    /\ (NotifyingCall /\ pc \in {"loop", "done"}) =>
        /\ count = Len(reg0)
        /\ Len(notified) <= Len(reg0)
        /\ Invoked = SubSeq(reg0, 1, Len(notified))
        /\ Len(registeredInstances) >= Len(reg0)
        /\ SubSeq(registeredInstances, 1, Len(reg0)) = reg0
        /\ \A r \in Range(registeredInstances) \ Range(reg0) : Times(r) = 0
        /\ (pc = "done") => Len(notified) = Len(reg0)

\* the only registered receiver built another one inside update(): the loop is
\* over, the new one is last in the registry and was not notified
C25_Witness ==
    /\ pc = "done"
    /\ mutated
    /\ Len(reg0) = 1
    /\ Len(notified) = 1
    /\ Len(registeredInstances) = 2
    /\ registeredInstances[1] = reg0[1]
    /\ Times(registeredInstances[2]) = 0
    /\ updateCount[registeredInstances[2]] = 0

\* C26: no step of a setDebugMode call changes the registry, lastUpdate,
\* firstCall, the set of live receivers or any counter, and no update() is
\* invoked in it; no step of a dispatch call, automatic or explicit, changes a
\* debug flag or the registry.
C26_FrameConditions ==
    /\ [][((op = "debug" \/ op' = "debug") =>
              /\ registeredInstances' = registeredInstances
              /\ lastUpdate' = lastUpdate
              /\ firstCall' = firstCall
              /\ live' = live
              /\ updateCount' = updateCount
              /\ totalDelta' = totalDelta)
          /\ ((op \in {"auto", "explicit"} \/ op' \in {"auto", "explicit"}) =>
              /\ debug' = debug
              /\ registeredInstances' = registeredInstances)]_vars
    /\ []((op = "debug") => notified = <<>>)

\* setDebugMode(true) has gone through two receivers that dispatches had
\* notified before, with the latch cleared and the cursor set
C26_Witness ==
    /\ pc = "done"
    /\ op = "debug"
    /\ mode
    /\ Len(registeredInstances) = 2
    /\ \A r \in live : DebugMode(r) /\ updateCount[r] >= 1
    /\ ~firstCall
    /\ lastUpdate # 0

====
